---- MODULE Spec2Model ----
(***************************************************************************)
(* A model of lomography.cpp: the two trackbar callbacks (color curve on   *)
(* the red channel, dark halo), the buffers they share, and main's         *)
(* start-up, key wait and exit.                                            *)
(*                                                                         *)
(* Images are sequences of rows of pixels <<c0, c1, c2>> (B, G, R); the    *)
(* empty cv::Mat is the empty sequence.  C++ indices are 0-based, the      *)
(* sequences here 1-based: pixel (x, y) of the code is m[y + 1][x + 1].    *)
(***************************************************************************)
EXTENDS Integers, Sequences, FiniteSets, TLC

VARIABLES
    pc,         \* main's position: "start", "waiting" (inside cv::waitKey), "done"
    exitCode,   \* main's return value, NoExit while running
    message,    \* what main printed: "none", "usage", "errors", "unable", "cv"
    window,     \* whether the window lomo_f exists
    trackbars,  \* names of the trackbars registered on the window
    img,        \* cv::Mat img: the decoded photo
    result,     \* cv::Mat result: output of the color filter
    display,    \* cv::Mat display: output of the vignette filter
    s,          \* int s
    radius,     \* int radius
    posS,       \* position of trackbar "s" as last delivered to trackbar_color
    posR,       \* position of trackbar "radius" as last delivered to trackbar_halo
    shown,      \* the image last passed to cv::imshow
    response,   \* uchar response, NoKey before cv::waitKey returns
    output,     \* content of output.jpg, empty while not written
    lastOp,     \* history: the callback that ran last, "none" | "color" | "halo"
    colorRan,   \* history: number of the color invocations so far, capped at 2
    firstColor, \* history: [s, res] left by the first color invocation
    lastColor,  \* history: result as written by the most recent color invocation
    probe       \* inputs and outputs of the pure-function specifications

vars == <<pc, exitCode, message, window, trackbars, img, result, display, s,
          radius, posS, posR, shown, response, output, lastOp, colorRan,
          firstColor, lastColor, probe>>

(***************************************************************************)
(* Program constants.                                                      *)
(***************************************************************************)
DefaultS == 10
DefaultRadius == 100
MinS == 8
MaxS == 20
MaxRadius == 100
LutSize == 256
RedChannel == 3
KeyQ == 113
KeyS == 115

(***************************************************************************)
(* Bounds of the model.                                                    *)
(***************************************************************************)
MaxDim == 6          \* the largest image side of the session specification
RStep == 25          \* the radius trackbar is moved in steps of RStep there
NumPatterns == 1     \* number of decoded pictures per size
MaxCalls == 4        \* halo invocations in a row on one radius field

Max(a, b) == IF a >= b THEN a ELSE b
Min(a, b) == IF a <= b THEN a ELSE b
Abs(a) == IF a >= 0 THEN a ELSE -a

RECURSIVE Pow2(_)
Pow2(k) == IF k <= 0 THEN 1 ELSE 2 * Pow2(k - 1)

Empty == << >>
Rows(m) == Len(m)
Cols(m) == IF Len(m) = 0 THEN 0 ELSE Len(m[1])
NoExit == 0 - 1      \* exitCode while main has not returned
NoKey == 0 - 1       \* response while cv::waitKey has not returned

(***************************************************************************)
(* Real arithmetic of the color curve.  The code computes in double        *)
(*     256 * (1 / (1 + pow(e, -((x - 0.5) / (s / 100)))))                  *)
(* with x = i / 256.  With n = |i - 128| the exponent has absolute value   *)
(* u = 25 n / (64 s).  The model computes exp(-u) in fixed point with      *)
(* 28 fractional bits: exp(-u / 64) by twelve Taylor terms, then six       *)
(* squarings.  All intermediate values stay below 2^31.  The fixed-point   *)
(* error (about 1e-6 of the value) is far below the distance of any        *)
(* 256 * logistic value from a rounding boundary for s in 1..20 (at least  *)
(* 3e-4), so the rounded entries are those of the double computation.      *)
(***************************************************************************)
One == Pow2(28)
Limb == Pow2(14)

\* a * b / One for fixed-point a, b < 2 * One, by 14-bit limbs.
FMul(a, b) ==
    LET a1 == a \div Limb
        a0 == a % Limb
        b1 == b \div Limb
        b0 == b % Limb
    IN  a1 * b1 + ((a1 * b0 + a0 * b1) \div Limb) + ((a0 * b0) \div One)

\* sum over j in k..12 of (-x)^j / j!, given term = x^(k-1) / (k-1)!
RECURSIVE TaylorTail(_, _, _)
TaylorTail(x, term, k) ==
    IF k > 12 THEN 0
    ELSE LET t == FMul(term, x) \div k
         IN  (IF k % 2 = 1 THEN -t ELSE t) + TaylorTail(x, t, k + 1)

RECURSIVE SquareTimes(_, _)
SquareTimes(e, k) == IF k = 0 THEN e ELSE SquareTimes(FMul(e, e), k - 1)

\* exp(-25 n / (64 sv)) in fixed point, n in 0..128, sv >= 1.
ExpNeg(n, sv) ==
    LET x == (25 * n * Pow2(16)) \div sv
    IN  SquareTimes(One + TaylorTail(x, One, 1), 6)

\* cvRound(256 * a / b) for 0 <= a <= b: eight steps of binary long division,
\* then rounding to nearest, ties to even (cvRound is lrint).
RECURSIVE LongDiv(_, _, _, _)
LongDiv(r, b, k, steps) ==
    IF steps = 0 THEN <<k, r>>
    ELSE IF 2 * r >= b THEN LongDiv(2 * r - b, b, 2 * k + 1, steps - 1)
         ELSE LongDiv(2 * r, b, 2 * k, steps - 1)

cvRoundRatio256_Ceil(a, b) ==
    LET kr == LongDiv(a, b, 0, 8)
    IN  IF kr[2] > 0 THEN kr[1] + 1 ELSE kr[1]

cvRoundRatio256(a, b) ==
    LET kr == LongDiv(a, b, 0, 8)
    IN  IF 2 * kr[2] > b \/ (2 * kr[2] = b /\ kr[1] % 2 = 1)
        THEN kr[1] + 1 ELSE kr[1]

\* The int that line 57 computes for index i and steepness sv (sv >= 1).
CurveValue(sv, i) ==
    LET e == ExpNeg(Abs(i - 128), sv)
    IN  IF i >= 128 THEN cvRoundRatio256(One, One + e)
        ELSE cvRoundRatio256(e, One + e)

\* Assignment of an int to a uchar element: reduction modulo 256.
StoreUchar(v) == v % 256

\* cv::saturate_cast<uchar>(int)
SaturateUchar(v) == IF v < 0 THEN 0 ELSE IF v > 255 THEN 255 ELSE v

\* s = std::max(s, 8)
NormalizeS_Floor7(v) == Max(v, MinS - 1)

NormalizeS(v) == Max(v, MinS)

\* A function over 1..n as the tuple of its values, each computed once.
Tuple(f) == f \o << >>

\* The table lut of trackbar_color for steepness sv, lines 53-58; the entry
\* for index i is LookupTable(sv)[i + 1].
LookupTable(sv) ==
    Tuple([k \in 1..LutSize |-> StoreUchar(CurveValue(sv, k - 1))])

\* The tables of all steepness values, built once.
LookupTables == Tuple([sv \in 1..MaxS |-> LookupTable(sv)])

(***************************************************************************)
(* The color filter: cv::split, cv::LUT on channel 2, cv::merge.           *)
(***************************************************************************)
\* cv::split: the three planes of m.
Split(m) ==
    [ch \in 1..3 |-> [r \in 1..Rows(m) |-> [c \in 1..Cols(m) |-> m[r][c][ch]]]]

\* cv::LUT on one plane.
ApplyLUT(plane, lut) ==
    [r \in 1..Len(plane) |-> [c \in 1..Len(plane[r]) |-> lut[plane[r][c] + 1]]]

\* cv::merge of three planes of equal size.
Merge(planes) ==
    Tuple([r \in 1..Len(planes[1]) |->
        Tuple([c \in 1..Len(planes[1][r]) |->
            <<planes[1][r][c], planes[2][r][c], planes[3][r][c]>>])])

\* Lines 62-65 with the LUT applied to channel ch instead of the red one.
RemapChannel(m, lut, ch) ==
    LET bgr == Split(m)
    IN  Merge([bgr EXCEPT ![ch] = ApplyLUT(bgr[ch], lut)])

ColorFilter_Blue(m, lut) == RemapChannel(m, lut, 1)

\* Lines 62-65: split img, remap bgr[2] in place, merge into result.
ColorFilter(m, lut) == RemapChannel(m, lut, RedChannel)

(***************************************************************************)
(* The pixel radius, lines 102-103:                                        *)
(*     radius = static_cast<int>(std::min(cols, rows) * (radius / 200.0)); *)
(*     radius = std::max(1, radius);                                       *)
(* radius / 200.0 is rounded to a double d = M / 2^k, 2^52 <= M < 2^53,    *)
(* the product min * d is rounded to a double again, and the cast          *)
(* truncates.  With m = min(cols, rows), q = m p div 200 and m p mod 200   *)
(* nonzero the roundings are too small to reach an integer, and the cast   *)
(* gives q.  When 200 divides m p, the product is q exactly unless d was   *)
(* rounded down: then it is q - eps with eps = m rem / (200 * 2^k),        *)
(* rem = p 2^k mod 200 < 100, and it rounds to a double below q, so that   *)
(* the cast gives q - 1, exactly when eps exceeds half the spacing of the  *)
(* doubles below q.                                                        *)
(***************************************************************************)
\* 2^k mod n
RECURSIVE PowMod2(_, _)
PowMod2(k, n) == IF k = 0 THEN 1 % n ELSE (2 * PowMod2(k - 1, n)) % n

\* The j with 200 <= p * 2^j < 400, for p >= 1: p / 200 lies in [2^-j, 2^(1-j)).
RECURSIVE BinExpUp(_, _)
BinExpUp(p, j) == IF p * Pow2(j) >= 200 THEN j ELSE BinExpUp(p, j + 1)

RECURSIVE BinExpDown(_, _)
BinExpDown(p, j) == IF p < 400 * Pow2(j) THEN -j ELSE BinExpDown(p, j + 1)

BinExp(p) == IF p < 200 THEN BinExpUp(p, 0) ELSE BinExpDown(p, 0)

\* floor(log2(q)) for q >= 1
RECURSIVE Log2Floor(_)
Log2Floor(q) == IF q < 2 THEN 0 ELSE 1 + Log2Floor(q \div 2)

\* static_cast<int>(m * (p / 200.0)) for m >= 0, p >= 0
ScaleByPercent(m, p) ==
    LET q == (m * p) \div 200
        j == BinExp(p)
        rem == (p * PowMod2(52 + j, 200)) % 200
        f == Log2Floor(q)
        z == j + f - 1 - (IF q = Pow2(f) THEN 1 ELSE 0)
        lhs == IF z >= 0 THEN m * rem ELSE m * rem * Pow2(-z)
        rhs == IF z >= 0 THEN 200 * Pow2(z) ELSE 200
    IN  IF (m * p) % 200 # 0 \/ q = 0 THEN q
        ELSE IF rem = 0 \/ rem > 100 THEN q
        ELSE IF lhs > rhs THEN q - 1 ELSE q

\* Line 102 with radius taken as a percentage of the whole shorter side.
HaloRadius_WholeSide(cols, rows, p) ==
    Max(1, ScaleByPercent(Min(cols, rows), 2 * p))

\* Line 102 alone, without the floor of line 103.
HaloRadius_NoFloor(cols, rows, p) == ScaleByPercent(Min(cols, rows), p)

\* Lines 102-103: the new value of radius from its old value p.
HaloRadius(cols, rows, p) == Max(1, ScaleByPercent(Min(cols, rows), p))

(***************************************************************************)
(* The halo mask, lines 94, 108, 109, in units of 1 / (2 K^2), K the       *)
(* kernel side: the mask before the blur holds 0.5 (1 half) outside the    *)
(* disc and 1.0 (2 halves) inside, and the normalized box filter averages  *)
(* K * K of them.                                                          *)
(***************************************************************************)
\* The (dx, dy) pairs visited by the midpoint loop of cv::circle (thickness
\* -1, LINE_8, no shift): each fills the rows cy +- dy over cx - dx..cx + dx
\* and the rows cy +- dx over cx - dy..cx + dy.
RECURSIVE CircleLoop(_, _, _, _, _)
CircleLoop(dx, dy, err, plus, minus) ==
    IF dx < dy THEN {}
    ELSE LET err1 == err + plus
             shrink == err1 > 0
         IN  {<<dx, dy>>} \cup
             CircleLoop(IF shrink THEN dx - 1 ELSE dx, dy + 1,
                        IF shrink THEN err1 - minus ELSE err1, plus + 2,
                        IF shrink THEN minus - 2 ELSE minus)

CircleSpans(rad) == CircleLoop(rad, 0, 0, 1, 2 * rad - 1)

\* cv::borderInterpolate(p, len, BORDER_REFLECT_101)
RECURSIVE BorderInterpolate(_, _)
BorderInterpolate(p, len) ==
    IF 0 <= p /\ p < len THEN p
    ELSE IF len = 1 THEN 0
    ELSE IF p < 0 THEN BorderInterpolate(-p, len)
    ELSE BorderInterpolate(2 * (len - 1) - p, len)

\* Line 94 and line 108: halves of the mask before the blur; inner is the
\* Scalar drawn by cv::circle, in halves.  Entry [y + 1][x + 1] is pixel (x, y).
HaloDisc(cols, rows, rad, inner) ==
    LET spans == CircleSpans(rad)
        cx == cols \div 2
        cy == rows \div 2
        hit(x, y) == \E d \in spans :
                        \/ Abs(y - cy) = d[2] /\ Abs(x - cx) <= d[1]
                        \/ Abs(y - cy) = d[1] /\ Abs(x - cx) <= d[2]
    IN  Tuple([y \in 1..rows |->
            Tuple([x \in 1..cols |->
                IF hit(x - 1, y - 1) THEN inner ELSE 1])])

RECURSIVE SumRange(_, _, _)
SumRange(f, lo, hi) == IF lo > hi THEN 0 ELSE f[lo] + SumRange(f, lo + 1, hi)

\* Line 109: cv::blur with a K x K kernel, anchor K div 2, BORDER_REFLECT_101,
\* before the division by K * K: first the sums along the rows, then along
\* the columns.
BoxSum(disc, cols, rows, k) ==
    LET px(v, len) == BorderInterpolate(v - 2 - (k \div 2), len) + 1
        rowSum == Tuple([y \in 1..rows |->
                     Tuple([x \in 1..cols |->
                         SumRange([i \in 1..k |-> disc[y][px(x + i, cols)]],
                                  1, k)])])
    IN  Tuple([y \in 1..rows |->
            Tuple([x \in 1..cols |->
                SumRange([j \in 1..k |-> rowSum[px(y + j, rows)][x]], 1, k)])])

HaloMask_Bright(cols, rows, rad) ==
    BoxSum(HaloDisc(cols, rows, rad, 3), cols, rows, rad)

\* halo after lines 94-109: entry [y + 1][x + 1] / (2 rad^2) is the
\* multiplier of pixel (x, y).
HaloMask(cols, rows, rad) ==
    BoxSum(HaloDisc(cols, rows, rad, 2), cols, rows, rad)

\* cvRound(n / d) for n >= 0, d > 0: nearest, ties to even.
RoundHalfEven(n, d) ==
    LET q == n \div d
        r == n % d
    IN  IF 2 * r > d \/ (2 * r = d /\ q % 2 = 1) THEN q + 1 ELSE q

\* Lines 113-122: convert to float, multiply by the mask, convert to 8 bits
\* (cv::saturate_cast<uchar> of the rounded product).  The product is taken
\* exactly here; the code's float product can fall on the other side of an
\* exact tie when the multiplier is not a binary fraction.
VignetteFilter(m, mask, k) ==
    Tuple([r \in 1..Rows(m) |->
        Tuple([c \in 1..Cols(m) |->
            Tuple([ch \in 1..3 |->
                SaturateUchar(RoundHalfEven(m[r][c][ch] * mask[r][c],
                                            2 * k * k))])])])

(***************************************************************************)
(* Inputs of the session.                                                  *)
(***************************************************************************)
\* <<rows, cols>> of the pictures cv::imread may return.
ImageSizes ==
    {<<1, 1>>, <<2, MaxDim>>, <<MaxDim, MaxDim - 1>>, <<MaxDim, MaxDim>>}

\* The k-th picture of the given size; its first pixel has blue and red 255.
Picture(rows, cols, k) ==
    Tuple([r \in 1..rows |->
        Tuple([c \in 1..cols |->
            <<(255 + (r - 1) * 37 + (c - 1) * 91 + (k - 1) * 13) % 256,
              ((r - 1) * 59 + (c - 1) * 23 + (k - 1) * 101) % 256,
              (255 + (r - 1) * 83 + (c - 1) * 101 + (k - 1) * 127) % 256>>])])

\* Positions the "s" trackbar delivers: everything up to the floor, the
\* default and the maximum.
SPositions == (0..MinS) \cup {DefaultS, MaxS}

\* Positions the "radius" trackbar delivers.
RPositions == {p \in 0..MaxRadius : p % RStep = 0}

\* Values cv::waitKey returns: no key (the window was closed), 'a', 'q', 's'.
KeyCodes == {0 - 1, 97, KeyQ, KeyS}

NoProbe ==
    [kind |-> "none", a |-> 0, b |-> 0, c |-> 0, raw |-> 0, out |-> 0,
     done |-> FALSE]

Init ==
    /\ pc = "start"
    /\ exitCode = NoExit
    /\ message = "none"
    /\ window = FALSE
    /\ trackbars = {}
    /\ img = Empty
    /\ result = Empty
    /\ display = Empty
    /\ s = DefaultS
    /\ radius = DefaultRadius
    /\ posS = DefaultS
    /\ posR = DefaultRadius
    /\ shown = Empty
    /\ response = NoKey
    /\ output = Empty
    /\ lastOp = "none"
    /\ colorRan = 0
    /\ firstColor = [s |-> 0, res |-> Empty]
    /\ lastColor = Empty
    /\ probe = NoProbe

session == <<pc, exitCode, message, window, trackbars, img, result, display,
             s, radius, posS, posR, shown, response, output, lastOp, colorRan,
             firstColor, lastColor>>

filterVars == <<result, display, s, radius, posS, posR, shown, lastOp,
                colorRan, firstColor, lastColor>>
history == <<lastOp, colorRan, firstColor, lastColor>>

(***************************************************************************)
(* main, lines 130-189.                                                    *)
(***************************************************************************)
\* Lines 140-144: help was asked for, or no file name was given.
MainUsage ==
    /\ pc = "start"
    /\ pc' = "done"
    /\ message' = "usage"
    /\ exitCode' = 1
    /\ UNCHANGED <<window, trackbars, img, response, output, probe>>
    /\ UNCHANGED filterVars

\* Lines 148-152: the parser reports errors.
MainParseError ==
    /\ pc = "start"
    /\ pc' = "done"
    /\ message' = "errors"
    /\ exitCode' = 1
    /\ UNCHANGED <<window, trackbars, img, response, output, probe>>
    /\ UNCHANGED filterVars

MainDecodeFailure_LateCheck ==
    /\ pc = "start"
    /\ pc' = "done"
    /\ img' = Empty
    /\ window' = TRUE
    /\ trackbars' = {"s", "radius"}
    /\ message' = "unable"
    /\ exitCode' = 1
    /\ UNCHANGED <<response, output, probe>>
    /\ UNCHANGED filterVars

\* Lines 156-160 and 177-181: cv::imread returns an empty image, main throws
\* a string, catches it and returns 1.
MainDecodeFailure ==
    /\ pc = "start"
    /\ pc' = "done"
    /\ img' = Empty
    /\ message' = "unable"
    /\ exitCode' = 1
    /\ UNCHANGED <<window, trackbars, response, output, probe>>
    /\ UNCHANGED filterVars

\* main as it would be if creating the "radius" trackbar ran its callback once.
MainOpen_RendersHalo ==
    /\ pc = "start"
    /\ \E size \in ImageSizes, k \in 1..NumPatterns :
           LET image == Picture(size[1], size[2], k)
               rad == HaloRadius(size[2], size[1], DefaultRadius)
               out == VignetteFilter(image, HaloMask(size[2], size[1], rad),
                                     rad)
           IN  /\ img' = image
               /\ result' = image
               /\ radius' = rad
               /\ display' = out
               /\ shown' = out
    /\ window' = TRUE
    /\ trackbars' = {"s", "radius"}
    /\ pc' = "waiting"
    /\ UNCHANGED <<exitCode, message, s, posS, posR, response, output, probe>>
    /\ UNCHANGED history

\* Lines 156-169: the picture is decoded, the window and the two trackbars
\* are created, the picture is shown and main blocks in cv::waitKey.
MainOpen ==
    /\ pc = "start"
    /\ \E size \in ImageSizes, k \in 1..NumPatterns :
           img' = Picture(size[1], size[2], k)
    /\ window' = TRUE
    /\ trackbars' = {"s", "radius"}
    /\ shown' = img'
    /\ pc' = "waiting"
    /\ UNCHANGED <<exitCode, message, result, display, s, radius, posS, posR,
                   response, output, probe>>
    /\ UNCHANGED history

MainKey_SaveAny ==
    /\ pc = "waiting"
    /\ pc' = "done"
    /\ \E k \in KeyCodes, throws \in BOOLEAN :
           /\ response' = k % 256
           /\ IF response' = KeyQ
              THEN /\ exitCode' = 0
                   /\ UNCHANGED <<message, window, output>>
              ELSE IF display = Empty /\ throws
              THEN /\ exitCode' = 1
                   /\ message' = "cv"
                   /\ UNCHANGED <<window, output>>
              ELSE /\ output' = display
                   /\ window' = FALSE
                   /\ exitCode' = 0
                   /\ UNCHANGED message
    /\ UNCHANGED <<trackbars, img, probe>>
    /\ UNCHANGED filterVars

\* Lines 169-188: cv::waitKey returns a key code, converted to uchar.  'q'
\* returns 0 at once; 's' hands display to cv::imwrite (output is the image
\* handed over, before the JPEG encoding).  On an empty image cv::imwrite
\* throws a cv::Exception (caught at line 182, return 1) in the releases
\* that assert !img.empty(), and writes nothing in the others: throws.
\* After 's' and after every other key the window is destroyed and main
\* returns 0.
MainKey ==
    /\ pc = "waiting"
    /\ pc' = "done"
    /\ \E k \in KeyCodes, throws \in BOOLEAN :
           /\ response' = k % 256
           /\ IF response' = KeyQ
              THEN /\ exitCode' = 0
                   /\ UNCHANGED <<message, window, output>>
              ELSE IF response' = KeyS /\ display = Empty /\ throws
              THEN /\ exitCode' = 1
                   /\ message' = "cv"
                   /\ UNCHANGED <<window, output>>
              ELSE /\ output' = (IF response' = KeyS THEN display ELSE output)
                   /\ window' = FALSE
                   /\ exitCode' = 0
                   /\ UNCHANGED message
    /\ UNCHANGED <<trackbars, img, probe>>
    /\ UNCHANGED filterVars

(***************************************************************************)
(* The trackbar callbacks.  The trackbar writes its new position into the  *)
(* bound variable and then calls the callback, and does so only when the   *)
(* position changed; callbacks run while main waits in cv::waitKey.        *)
(***************************************************************************)
ColorSource_Result(image, res) == IF res = Empty THEN image ELSE res

\* Line 63: the image the color filter splits.
ColorSource(image, res) == image

\* The color callback as it would be if the planes of line 63 shared the
\* original's storage, so that line 64 wrote through to img.
TrackbarColor_Aliased ==
    /\ pc = "waiting"
    /\ "s" \in trackbars
    /\ \E pos \in SPositions \ {posS} :
           LET sv == NormalizeS(pos)
               res == ColorFilter(ColorSource(img, result), LookupTables[sv])
           IN  /\ posS' = pos
               /\ s' = sv
               /\ img' = res
               /\ result' = res
               /\ shown' = res
               /\ lastColor' = res
               /\ firstColor' = (IF colorRan = 0 THEN [s |-> sv, res |-> res]
                                 ELSE firstColor)
    /\ lastOp' = "color"
    /\ colorRan' = Min(colorRan + 1, 2)
    /\ UNCHANGED <<pc, exitCode, message, window, trackbars, display,
                   radius, posR, response, output, probe>>

\* Lines 43-68.
TrackbarColor ==
    /\ pc = "waiting"
    /\ "s" \in trackbars
    /\ \E pos \in SPositions \ {posS} :
           LET sv == NormalizeS(pos)
               res == ColorFilter(ColorSource(img, result), LookupTables[sv])
           IN  /\ posS' = pos
               /\ s' = sv
               /\ result' = res
               /\ shown' = res
               /\ lastColor' = res
               /\ firstColor' = (IF colorRan = 0 THEN [s |-> sv, res |-> res]
                                 ELSE firstColor)
    /\ lastOp' = "color"
    /\ colorRan' = Min(colorRan + 1, 2)
    /\ UNCHANGED <<pc, exitCode, message, window, trackbars, img, display,
                   radius, posR, response, output, probe>>

HaloSource_Original(image, res) == image

\* Lines 88-89: result after the emptiness test.
HaloSource(image, res) == IF res = Empty THEN image ELSE res

\* The halo callback as it would be if lines 113-122 multiplied result in
\* place instead of writing display.
TrackbarHalo_InPlace ==
    /\ pc = "waiting"
    /\ "radius" \in trackbars
    /\ \E pos \in RPositions \ {posR} :
           LET rad == HaloRadius(Cols(img), Rows(img), pos)
               src == HaloSource(img, result)
               out == VignetteFilter(src, HaloMask(Cols(img), Rows(img), rad),
                                     rad)
           IN  /\ posR' = pos
               /\ radius' = rad
               /\ result' = out
               /\ display' = out
               /\ shown' = out
    /\ lastOp' = "halo"
    /\ UNCHANGED <<pc, exitCode, message, window, trackbars, img, s, posS,
                   response, output, colorRan, firstColor, lastColor, probe>>

\* Lines 83-124.
TrackbarHalo ==
    /\ pc = "waiting"
    /\ "radius" \in trackbars
    /\ \E pos \in RPositions \ {posR} :
           LET rad == HaloRadius(Cols(img), Rows(img), pos)
               src == HaloSource(img, result)
               out == VignetteFilter(src, HaloMask(Cols(img), Rows(img), rad),
                                     rad)
           IN  /\ posR' = pos
               /\ radius' = rad
               /\ result' = src
               /\ display' = out
               /\ shown' = out
    /\ lastOp' = "halo"
    /\ UNCHANGED <<pc, exitCode, message, window, trackbars, img, s, posS,
                   response, output, colorRan, firstColor, lastColor, probe>>

Next ==
    \/ MainUsage
    \/ MainParseError
    \/ MainDecodeFailure
    \/ MainOpen
    \/ MainKey
    \/ TrackbarColor
    \/ TrackbarHalo

Spec == Init /\ [][Next]_vars

(***************************************************************************)
(* The pixel radius as a function: lines 102-103 applied to a value p of   *)
(* radius that the trackbar has just written, for images of cols x rows.   *)
(***************************************************************************)
\* Image sides of the radius specification.
RadiusSides == {1, 2, 3, MaxDim, 100, 180, 200, 201, 250}

InitRadius ==
    /\ Init!1 /\ Init!2 /\ Init!3 /\ Init!4 /\ Init!5 /\ Init!6 /\ Init!7
    /\ Init!8 /\ Init!9 /\ Init!10 /\ Init!11 /\ Init!12 /\ Init!13
    /\ Init!14 /\ Init!15 /\ Init!16 /\ Init!17 /\ Init!18 /\ Init!19
    /\ \E cols \in RadiusSides, rows \in RadiusSides, p \in 0..MaxRadius :
           probe = [kind |-> "radius", a |-> cols, b |-> rows, c |-> p,
                    raw |-> 0, out |-> 0, done |-> FALSE]

\* Lines 102-103: raw is the value of line 102, out that of line 103, which
\* lines 108 and 109 use as the circle's radius and as the kernel's side.
ProbeRadius ==
    /\ probe.kind = "radius"
    /\ ~probe.done
    /\ probe' = [probe EXCEPT
                    !.raw = ScaleByPercent(Min(probe.a, probe.b), probe.c),
                    !.out = HaloRadius(probe.a, probe.b, probe.c),
                    !.done = TRUE]
    /\ UNCHANGED session

NextRadius == ProbeRadius

SpecRadius == InitRadius /\ [][NextRadius]_vars

(***************************************************************************)
(* One entry of the lookup table as a function: lines 49-58 for a position *)
(* a of the "s" trackbar and an index b.                                   *)
(***************************************************************************)
InitLut ==
    /\ Init!1 /\ Init!2 /\ Init!3 /\ Init!4 /\ Init!5 /\ Init!6 /\ Init!7
    /\ Init!8 /\ Init!9 /\ Init!10 /\ Init!11 /\ Init!12 /\ Init!13
    /\ Init!14 /\ Init!15 /\ Init!16 /\ Init!17 /\ Init!18 /\ Init!19
    /\ \E pos \in 0..MaxS, i \in 0..(LutSize - 1) :
           probe = [kind |-> "lut", a |-> pos, b |-> i, c |-> 0,
                    raw |-> 0, out |-> 0, done |-> FALSE]

\* Lines 49-58: c is s after line 49, raw the int cvRound returns at line 57,
\* out the byte stored into lut.
ProbeLut ==
    /\ probe.kind = "lut"
    /\ ~probe.done
    /\ LET sv == NormalizeS(probe.a)
       IN  probe' = [probe EXCEPT
                        !.c = sv,
                        !.raw = CurveValue(sv, probe.b),
                        !.out = LookupTables[sv][probe.b + 1],
                        !.done = TRUE]
    /\ UNCHANGED session

NextLut == ProbeLut

SpecLut == InitLut /\ [][NextLut]_vars

(***************************************************************************)
(* The halo callback run several times in a row on the radius field, which *)
(* lines 102-103 read and overwrite: the trackbar wrote field = p before   *)
(* the first run and nothing rewrites it afterwards.  prev is the field's  *)
(* value when the latest run started, calls counts the runs.               *)
(***************************************************************************)
InitReinvoke ==
    /\ Init!1 /\ Init!2 /\ Init!3 /\ Init!4 /\ Init!5 /\ Init!6 /\ Init!7
    /\ Init!8 /\ Init!9 /\ Init!10 /\ Init!11 /\ Init!12 /\ Init!13
    /\ Init!14 /\ Init!15 /\ Init!16 /\ Init!17 /\ Init!18 /\ Init!19
    /\ \E cols \in RadiusSides, rows \in RadiusSides, p \in 0..MaxRadius :
           probe = [kind |-> "reinvoke", a |-> cols, b |-> rows,
                    prev |-> p, field |-> p, calls |-> 0]

\* Lines 102-103, reading the radius field the previous run left.
HaloReinvoke ==
    /\ probe.kind = "reinvoke"
    /\ probe.calls < MaxCalls
    /\ probe' = [probe EXCEPT
                    !.prev = probe.field,
                    !.field = HaloRadius(probe.a, probe.b, probe.field),
                    !.calls = probe.calls + 1]
    /\ UNCHANGED session

NextReinvoke == HaloReinvoke

SpecReinvoke == InitReinvoke /\ [][NextReinvoke]_vars

(***************************************************************************)
(* Properties.                                                             *)
(***************************************************************************)
Pixels(m) == {<<r, c>> : r \in 1..Rows(m), c \in 1..Cols(m)}

\* The halo mask of the current image for the current value of radius.
CurrentMask == HaloMask(Cols(img), Rows(img), radius)

\* C1: after every halo invocation the DisplayBuffer is the vignette of the
\* ResultBuffer written by the most recent color invocation, and the
\* vignette of the original image when no color invocation has happened.
C1_HaloComposesOnLatestColor ==
    lastOp = "halo" =>
        display = VignetteFilter(IF colorRan = 0 THEN img ELSE lastColor,
                                 CurrentMask, radius)

\* C1 witness: a halo invocation after a color invocation whose output is
\* not the vignette of the original image.
C1_Witness ==
    /\ lastOp = "halo"
    /\ colorRan > 0
    /\ lastColor # img
    /\ display # VignetteFilter(img, CurrentMask, radius)

\* C2: a color invocation that ends with the steepness of the first color
\* invocation leaves the ResultBuffer the first one left, whatever color
\* and halo invocations came in between.
C2_ColorDependsOnlyOnOriginalAndS ==
    (colorRan >= 1 /\ s = firstColor.s) =>
        (lastColor = firstColor.res /\ result = firstColor.res)

\* C2 witness: a later color invocation with the steepness of the first
\* one, after a halo invocation and after a different ResultBuffer.
C2_Witness ==
    /\ colorRan = 2
    /\ lastOp = "color"
    /\ s = firstColor.s
    /\ display # Empty
    /\ display # VignetteFilter(result, CurrentMask, radius)
    /\ result # img

\* C3 as claimed: once a filter has run, the DisplayBuffer is the image
\* last shown in the window, and a save writes that image.
C3_DisplayIsLastRendered ==
    lastOp # "none" =>
        /\ display = shown
        /\ (pc = "done" /\ response = KeyS) => output = shown

\* C4 as claimed: the program ends after a key only if the key is the save
\* key, the quit key, or the window was closed (no key).
C4_OtherKeysIgnored ==
    (pc = "done" /\ response # NoKey) => response \in {KeyQ, KeyS, 255}

\* C4 as amended: every key press ends the wait; after a key that is
\* neither 's' nor 'q' the window is destroyed and main returns 0 with no
\* file written and img, result and display unchanged.
C4_OtherKeyEndsSession ==
    [][(pc = "waiting" /\ response' # response) =>
          /\ pc' = "done"
          /\ response' \notin {KeyQ, KeyS} =>
                /\ exitCode' = 0
                /\ window' = FALSE
                /\ output' = output
                /\ UNCHANGED <<img, result, display, message>>]_vars

\* C4 witness: the session ended on the key 'a' after a halo invocation.
C4_Witness ==
    /\ pc = "done"
    /\ response = 97
    /\ exitCode = 0
    /\ display # Empty
    /\ output = Empty

\* C5: after a usage error, a parse error or a decode failure main has
\* returned 1, no window and no trackbar exists, no filter has run, and
\* ResultBuffer and DisplayBuffer are unwritten.
C5_ErrorsExitBeforeWindow ==
    message \in {"usage", "errors", "unable"} =>
        /\ pc = "done"
        /\ exitCode = 1
        /\ window = FALSE
        /\ trackbars = {}
        /\ lastOp = "none"
        /\ result = Empty
        /\ display = Empty
        /\ shown = Empty

\* C5 witness: main has ended on a decode failure.
C5_Witness == pc = "done" /\ message = "unable" /\ exitCode = 1

\* C6: a color invocation for a trackbar position below 8 uses the table of
\* steepness 8 and leaves the ResultBuffer a color invocation with 8 leaves.
C6_BelowFloorSameAsFloor ==
    (lastOp = "color" /\ posS < MinS) =>
        /\ LookupTables[s] = LookupTables[MinS]
        /\ result = ColorFilter(img, LookupTables[MinS])

\* C6 witness: the color callback ran for position 0 and changed the image.
C6_Witness == lastOp = "color" /\ posS = 0 /\ result # img

\* C7 as claimed: for a position p just written into radius the pixel radius
\* is max(1, floor(min(W, H) * p / 200)).
C7_RadiusIsFloorOfExactProduct ==
    (probe.kind = "radius" /\ probe.done) =>
        probe.out = Max(1, (Min(probe.a, probe.b) * probe.c) \div 200)

\* C8: the ResultBuffer a color invocation writes has the original's size,
\* its channels 0 and 1 are the original's, and its channel 2 is the table
\* entry of the original's channel 2, at every pixel.
C8_OnlyRedChannelRemapped ==
    lastOp = "color" =>
        /\ Rows(result) = Rows(img)
        /\ \A r \in 1..Rows(img) : Len(result[r]) = Len(img[r])
        /\ \A px \in Pixels(img) :
               LET old == img[px[1]][px[2]]
                   new == result[px[1]][px[2]]
               IN  /\ Len(new) = 3
                   /\ new[1] = old[1]
                   /\ new[2] = old[2]
                   /\ new[3] = LookupTables[s][old[3] + 1]

\* C8 witness: a color invocation on an image of several rows and columns
\* that changed the red channel of some pixel.
C8_Witness ==
    /\ lastOp = "color"
    /\ Rows(img) > 1
    /\ Cols(img) > 1
    /\ \E px \in Pixels(img) : result[px[1]][px[2]][3] # img[px[1]][px[2]][3]

\* C9: for every effective steepness in 8..20 and every index the rounded
\* curve value lies in 0..255, so the stored byte is that value: storing it
\* neither wraps nor clamps.
C9_EntriesFitInByte ==
    (probe.kind = "lut" /\ probe.done) =>
        /\ probe.c \in MinS..MaxS
        /\ probe.raw \in 0..255
        /\ probe.out = SaturateUchar(probe.raw)
        /\ probe.out = probe.raw

\* C9 witness: the largest entry, index 255 at steepness 8, is 255.
C9_Witness ==
    /\ probe.kind = "lut"
    /\ probe.done
    /\ probe.c = MinS
    /\ probe.b = 255
    /\ probe.raw = 255

\* C10: after a halo invocation every channel of every pixel of the
\* DisplayBuffer is at most that of the ResultBuffer, and every multiplier
\* of the mask lies between 0.5 and 1.0.
C10_HaloNeverBrightens ==
    lastOp = "halo" =>
        /\ \A px \in Pixels(result), ch \in 1..3 :
               display[px[1]][px[2]][ch] <= result[px[1]][px[2]][ch]
        /\ LET mask == CurrentMask
           IN  \A px \in Pixels(img) :
                   /\ radius * radius <= mask[px[1]][px[2]]
                   /\ mask[px[1]][px[2]] <= 2 * radius * radius

\* C10 witness: a halo invocation that darkened one pixel and kept another
\* nonzero one at its value.
C10_Witness ==
    /\ lastOp = "halo"
    /\ \E px \in Pixels(result), ch \in 1..3 :
           display[px[1]][px[2]][ch] < result[px[1]][px[2]][ch]
    /\ \E px \in Pixels(result), ch \in 1..3 :
           /\ result[px[1]][px[2]][ch] > 0
           /\ display[px[1]][px[2]][ch] = result[px[1]][px[2]][ch]

(***************************************************************************)
(* The first render, lines 164-167.                                        *)
(***************************************************************************)
\* The halo callback's picture for the default radius position, of image m.
DefaultVignette(m) ==
    LET rad == HaloRadius(Cols(m), Rows(m), DefaultRadius)
    IN  VignetteFilter(m, HaloMask(Cols(m), Rows(m), rad), rad)

\* C11 as claimed: before any slider is moved the window shows a picture
\* with the vignette applied, that of the original or of its color-filtered
\* version at the default positions.
C11_FirstRenderHasVignette ==
    (pc = "waiting" /\ lastOp = "none") =>
        \/ shown = DefaultVignette(img)
        \/ shown = DefaultVignette(ColorFilter(img, LookupTables[DefaultS]))

\* C11: before any slider is moved the window shows the original image as
\* decoded; no callback has run: ResultBuffer and DisplayBuffer are empty
\* and s and radius hold their defaults.
C11_FirstRenderIsOriginal ==
    (pc = "waiting" /\ lastOp = "none") =>
        /\ shown = img
        /\ result = Empty
        /\ display = Empty
        /\ s = DefaultS
        /\ radius = DefaultRadius

\* C11 witness: the window is open, no slider was moved, and the vignette of
\* the picture would differ from what is shown.
C11_Witness ==
    /\ pc = "waiting"
    /\ lastOp = "none"
    /\ window
    /\ shown # Empty
    /\ DefaultVignette(img) # img

(***************************************************************************)
(* The radius field under repeated halo invocations, lines 102-103.        *)
(***************************************************************************)
\* C12 as claimed: from the second invocation on, the pixel radius an
\* invocation stores is at most the one the previous invocation stored,
\* whatever the image size.
C12_RadiusNeverGrows ==
    (probe.kind = "reinvoke" /\ probe.calls >= 2) =>
        probe.field <= probe.prev

\* C12: from the second invocation on, the stored pixel radius is at least 1
\* and at most the previous one when the image's shorter side is at most 200
\* pixels, and is at least the previous one when the shorter side exceeds 200.
C12_RadiusShrinksUpToSide200 ==
    (probe.kind = "reinvoke" /\ probe.calls >= 2) =>
        /\ probe.field >= 1
        /\ Min(probe.a, probe.b) <= 200 => probe.field <= probe.prev
        /\ Min(probe.a, probe.b) > 200 => probe.field >= probe.prev

\* C12 witness: a second invocation on an image with a shorter side of at
\* most 200 stored a smaller radius than the first.
C12_Witness ==
    /\ probe.kind = "reinvoke"
    /\ probe.calls = 2
    /\ Min(probe.a, probe.b) <= 200
    /\ probe.field < probe.prev
    /\ probe.field > 1

(***************************************************************************)
(* What the callbacks leave alone.                                         *)
(***************************************************************************)
\* C13: a halo invocation (the only step that moves the radius trackbar's
\* position) that starts with ResultBuffer set leaves ResultBuffer as it
\* was, and one that starts with ResultBuffer unset makes it equal to the
\* original image.
C13_HaloFrameOnResult ==
    [][(posR' # posR) =>
           result' = (IF result = Empty THEN img ELSE result)]_vars

\* C13 witness: a halo invocation ran on a ResultBuffer the color callback
\* had set; the ResultBuffer is still the color callback's, not the
\* original and not the darkened picture.
C13_Witness ==
    /\ lastOp = "halo"
    /\ colorRan > 0
    /\ result = lastColor
    /\ result # img
    /\ display # Empty
    /\ display # result

\* C14: once decoded, the original image never changes: no step of the
\* session, color or halo invocation or key press, writes to it.
C14_OriginalNeverWritten ==
    [][(img # Empty) => (img' = img)]_vars

\* C14 witness: both callbacks have run, the color callback more than once,
\* the ResultBuffer differs from the original, and the original is still a
\* picture as decoded.
C14_Witness ==
    /\ pc = "waiting"
    /\ colorRan = 2
    /\ lastOp = "halo"
    /\ result # img
    /\ display # img
    /\ \E size \in ImageSizes, k \in 1..NumPatterns :
           img = Picture(size[1], size[2], k)

\* C15: right after a halo invocation that started with the radius field in
\* 0..100, the stored radius r satisfies 1 <= r <= max(1, floor(min(W, H) / 2)).
C15_RadiusWithinHalfSide ==
    (probe.kind = "reinvoke" /\ probe.calls >= 1
                             /\ probe.prev \in 0..MaxRadius) =>
        /\ 1 <= probe.field
        /\ probe.field <= Max(1, Min(probe.a, probe.b) \div 2)

\* C15 witness: an invocation that started with the radius field at 0 on an
\* image with room for a larger disc stored the floor, 1.
C15_Witness ==
    /\ probe.kind = "reinvoke"
    /\ probe.calls = 1
    /\ probe.prev = 0
    /\ probe.field = 1
    /\ Min(probe.a, probe.b) >= 100

====
